---- MODULE Spec2Model ----
(***************************************************************************)
(* NBA clutch predictor (nba_clutch_predictor.py): the scoring engine      *)
(* calcular_clutch_score and the page script that feeds it.                *)
(*                                                                         *)
(* Numbers.  A float is a record [isnan, val]; val is a fixed-point        *)
(* integer.  Stat cells hold the statistic as an integer (percentages in   *)
(* hundredths: .45 is 45; standardizing is invariant under that scaling).  *)
(* A standardized value is held in units of 1/Precision, a weight in       *)
(* hundredths, a score in units of 1/(100 * Precision).  A rank is the     *)
(* reduced fraction num/den pandas computes (or NaN).                      *)
(***************************************************************************)
EXTENDS Integers, Sequences, FiniteSets

VARIABLES
    pc,            \* where the call, or the run of the page script, stands
    feed,          \* how the two fetches of the run ended
    partidos,      \* obtener_partidos(): label -> game info
    abreviaturas,  \* the two team codes of the selected game
    jugadores,     \* the frame handed to calcular_clutch_score
    df_clutch,     \* the table calcular_clutch_score returned
    raised         \* the exception that left calcular_clutch_score, or ""

vars == <<pc, feed, partidos, abreviaturas, jugadores, df_clutch, raised>>

\* ------------------------------------------------------------------ bounds
MaxRows == 3
MaxLeagueRows == 2
MaxGames == 1
Precision == 100

\* ------------------------------------------------------------------ floats
NaN == [isnan |-> TRUE, val |-> 0]

Float(v) == [isnan |-> FALSE, val |-> v]

\* An array held by value: its cells are computed once, when it is built.
Array(f) == f \o <<>>

\* num / den rounded to the nearest integer, symmetric about zero (den > 0).
RoundDiv(num, den) ==
    IF num >= 0 THEN (2 * num + den) \div (2 * den)
    ELSE -((2 * (-num) + den) \div (2 * den))

RECURSIVE SqrtSearch(_, _, _)
\* The largest r in lo..hi-1 with r * r <= n, by bisection.
SqrtSearch(n, lo, hi) ==
    IF hi - lo <= 1 THEN lo
    ELSE LET mid == (lo + hi) \div 2
         IN  IF mid * mid <= n THEN SqrtSearch(n, mid, hi)
             ELSE SqrtSearch(n, lo, mid)

\* np.sqrt on a non-negative fixed-point value: floor of the square root.
Sqrt(n) == SqrtSearch(n, 0, (IF n < 40000 THEN n ELSE 40000) + 1)

RECURSIVE GCD(_, _)
GCD(a, b) == IF b = 0 THEN a ELSE GCD(b, a % b)

RECURSIVE SumOver(_, _)
\* Sum of f[i] over the finite set S of indices.
SumOver(f, S) ==
    IF S = {} THEN 0
    ELSE LET i == CHOOSE x \in S : TRUE
         IN  f[i] + SumOver(f, S \ {i})

\* ------------------------------------------------------------------ engine
\* The weights dict, in insertion order: <<key, value in hundredths>>.
weights ==
    << <<"PTS", 35>>, <<"FG_PCT", 25>>, <<"FT_PCT", 15>>,
       <<"AST", 15>>, <<"FG3_PCT", 10>>, <<"TOV", -25>> >>

\* The six stat columns in the order the frame holds them (lines 52-53), not
\* the order of the weights.
weights_keys_frame_order == <<"FG_PCT", "FG3_PCT", "FT_PCT", "AST", "TOV", "PTS">>

\* list(weights.keys())
weights_keys == Array([j \in 1..Len(weights) |-> weights[j][1]])

\* list(weights.values())
weights_values == Array([j \in 1..Len(weights) |-> weights[j][2]])

\* The rows of column c that hold a value: StandardScaler disregards NaN in fit.
NotNaN(rows, c) == {i \in 1..Len(rows) : ~rows[i][c].isnan}

\* The scale with no care for a zero: the standard deviation as it is.
scale_unguarded(var, n) == Sqrt(var * Precision * Precision)

\* StandardScaler's scale_ = sqrt(var_) with a zero replaced by 1
\* (_handle_zeros_in_scale), held as n * scale_ in units of 1/Precision.
scale_(var, n) ==
    IF var = 0 THEN n * Precision ELSE Sqrt(var * Precision * Precision)

\* StandardScaler.fit on the column c: the number n of values, their sum
\* (mean_ = sum / n, kept exact), var = n^2 * var_ where var_ is the mean of the
\* squared deviations from mean_ (the population variance), and the scale.
fit(rows, c) ==
    LET S == NotNaN(rows, c)
        n == Cardinality(S)
        sum == SumOver([k \in S |-> rows[k][c].val], S)
        var == SumOver([k \in S |-> (n * rows[k][c].val - sum) * (n * rows[k][c].val - sum)], S)
                  \div n
    IN  IF n = 0 THEN [n_samples_seen |-> 0, sum |-> 0, var |-> 0, scale |-> 0]
        ELSE [n_samples_seen |-> n, sum |-> sum, var |-> var, scale |-> scale_(var, n)]

\* StandardScaler.transform, one cell: (x - mean_) / scale_.  NaN is kept, and a
\* division by a zero scale gives no number.
transform(x, scaler) ==
    IF x.isnan \/ scaler.scale = 0 THEN NaN
    ELSE Float(RoundDiv((scaler.n_samples_seen * x.val - scaler.sum) * Precision * Precision,
                        scaler.scale))

\* scaler.fit_transform(df[cols]): row i, position j holds the standardized
\* value of column cols[j].
fit_transform(rows, cols) ==
    LET scaler == Array([j \in 1..Len(cols) |-> fit(rows, cols[j])])
    IN  Array([i \in 1..Len(rows) |->
                  Array([j \in 1..Len(cols) |-> transform(rows[i][cols[j]], scaler[j])])])

RECURSIVE DotFrom(_, _, _)
DotFrom(a, b, j) ==
    IF j > Len(a) THEN 0 ELSE a[j].val * b[j] + DotFrom(a, b, j + 1)

\* np.dot of one row with the weight vector, position by position; NaN in any
\* position makes the product NaN.
Dot(a, b) ==
    IF \E j \in 1..Len(a) : a[j].isnan THEN NaN ELSE Float(DotFrom(a, b, 1))

\* clutch_scores = np.dot(scaled_data, list(weights.values()))
clutch_scores(rows) ==
    LET scaled_data == fit_transform(rows, weights_keys)
    IN  Array([i \in 1..Len(rows) |-> Dot(scaled_data[i], weights_values)])

\* Series.rank() with its default ascending = True: the lowest score ranks 1.
RankAscending(scores, i) ==
    IF scores[i].isnan THEN [isnan |-> TRUE, num |-> 0, den |-> 1]
    ELSE LET valid == {k \in 1..Len(scores) : ~scores[k].isnan}
             g == Cardinality({k \in valid : scores[k].val < scores[i].val})
             t == Cardinality({k \in valid : scores[k].val = scores[i].val})
             total == SumOver([q \in (g + 1)..(g + t) |-> q], (g + 1)..(g + t))
             d == GCD(total, t)
         IN  [isnan |-> FALSE, num |-> total \div d, den |-> t \div d]

\* Series.rank(ascending = False), method 'average', na_option 'keep': a value's
\* rank is the mean of the ordinal positions its tied group takes in descending
\* order; NaN gets NaN and is not counted.
Rank(scores, i) ==
    IF scores[i].isnan THEN [isnan |-> TRUE, num |-> 0, den |-> 1]
    ELSE LET valid == {k \in 1..Len(scores) : ~scores[k].isnan}
             g == Cardinality({k \in valid : scores[k].val > scores[i].val})
             t == Cardinality({k \in valid : scores[k].val = scores[i].val})
             total == SumOver([q \in (g + 1)..(g + t) |-> q], (g + 1)..(g + t))
             d == GCD(total, t)
         IN  [isnan |-> FALSE, num |-> total \div d, den |-> t \div d]

\* The score column attached against the row order: row i gets the score and
\* rank of row n + 1 - i.
WithScoreMisaligned(rows) ==
    LET scores == clutch_scores(rows)
        n == Len(rows)
    IN  Array([i \in 1..n |->
                  [PLAYER_NAME |-> rows[i].PLAYER_NAME,
                   TEAM_ABBREVIATION |-> rows[i].TEAM_ABBREVIATION,
                   CLUTCH_SCORE |-> scores[n + 1 - i],
                   CLUTCH_RANK |-> Rank(scores, n + 1 - i)]])

\* Lines 17-19: the two identifying columns copied, the score and rank columns
\* added position by position.
WithScoreAndRank(rows) ==
    LET scores == clutch_scores(rows)
    IN  Array([i \in 1..Len(rows) |->
                  [PLAYER_NAME |-> rows[i].PLAYER_NAME,
                   TEAM_ABBREVIATION |-> rows[i].TEAM_ABBREVIATION,
                   CLUTCH_SCORE |-> scores[i],
                   CLUTCH_RANK |-> Rank(scores, i)]])

Orderings(n) ==
    {p \in [1..n -> 1..n] : \A a, b \in 1..n : a # b => p[a] # p[b]}

\* The order of sort_values with its default ascending = True.
AscendingOrder(x, y) == y.isnan \/ (~x.isnan /\ x.val <= y.val)

\* Whether a row with score x may stand right before one with score y when
\* sorting descending with NaN last.
DescendingOrder(x, y) == y.isnan \/ (~x.isnan /\ x.val >= y.val)

\* sort_values('CLUTCH_SCORE', ascending = False).reset_index(drop = True): the
\* default sort is not stable, so tied rows may come out in any order.
sort_values(t) ==
    {Array([k \in 1..Len(t) |-> t[p[k]]]) :
        p \in {q \in Orderings(Len(t)) :
                 \A k \in 1..(Len(t) - 1) :
                    DescendingOrder(t[q[k]].CLUTCH_SCORE, t[q[k + 1]].CLUTCH_SCORE)}}

\* Line 15 with no check that the frame has a row.
FitErrorNoSampleCheck(df) ==
    IF \E j \in 1..Len(weights_keys) : weights_keys[j] \notin df.columns
    THEN "KeyError"
    ELSE ""

\* The exception line 15 raises, or "" when it raises none: KeyError when a
\* weighted column is not in the frame, ValueError (StandardScaler's check of
\* at least one sample) when the frame has no rows.
FitError(df) ==
    IF \E j \in 1..Len(weights_keys) : weights_keys[j] \notin df.columns
    THEN "KeyError"
    ELSE IF Len(df.rows) = 0 THEN "ValueError"
    ELSE ""

\* The outcomes of calcular_clutch_score(df): [raised, table].
calcular_clutch_score(df) ==
    IF FitError(df) # ""
    THEN {[raised |-> FitError(df), table |-> <<>>]}
    ELSE {[raised |-> "", table |-> t] : t \in sort_values(WithScoreAndRank(df.rows))}

\* ------------------------------------------------------------------ inputs
StatColumns == {"PTS", "FG_PCT", "FT_PCT", "AST", "FG3_PCT", "TOV"}

AllColumns == {"PLAYER_NAME", "TEAM_ABBREVIATION"} \cup StatColumns

Stats(pts, fg, ft, ast, fg3, tov) ==
    [PTS |-> pts, FG_PCT |-> fg, FT_PCT |-> ft, AST |-> ast, FG3_PCT |-> fg3, TOV |-> tov]

ProfileA == Stats(Float(30), Float(50), Float(80), Float(5), Float(35), Float(3))
ProfileB == Stats(Float(20), Float(45), Float(90), Float(8), Float(40), Float(1))
ProfileC == Stats(Float(10), Float(40), Float(70), Float(2), Float(30), Float(5))
\* As A but for the points: with A, five columns have zero variance.
ProfileD == Stats(Float(20), Float(50), Float(80), Float(5), Float(35), Float(3))
\* As B with no three-point percentage.
ProfileM == Stats(Float(20), Float(45), Float(90), Float(8), NaN, Float(1))

Profiles == {ProfileA, ProfileB, ProfileC, ProfileD, ProfileM}

Player(name, team, s) ==
    [PLAYER_NAME |-> name, TEAM_ABBREVIATION |-> team,
     PTS |-> s.PTS, FG_PCT |-> s.FG_PCT, FT_PCT |-> s.FT_PCT,
     AST |-> s.AST, FG3_PCT |-> s.FG3_PCT, TOV |-> s.TOV]

Identities == {<<"A", "HOM">>, <<"B", "VIS">>, <<"C", "VIS">>}

EngineRows == {Player(id[1], id[2], s) : id \in Identities, s \in Profiles}

SeqsUpTo(S, n) == UNION {[1..k -> S] : k \in 0..n}

\* pd.DataFrame(): no columns, no rows.
EmptyFrame == [columns |-> {}, rows |-> <<>>]

EngineInputs ==
    {EmptyFrame} \cup {[columns |-> AllColumns, rows |-> r] : r \in SeqsUpTo(EngineRows, MaxRows)}

\* ------------------------------------------------------------------ direct call
NoFeed == [games |-> "none", players |-> "none"]

Init ==
    /\ pc = "call"
    /\ feed = NoFeed
    /\ partidos = <<>>
    /\ abreviaturas = <<>>
    /\ jugadores \in EngineInputs
    /\ df_clutch = <<>>
    /\ raised = ""

\* calcular_clutch_score(jugadores) returns a table.
Return ==
    /\ pc = "call"
    /\ FitError(jugadores) = ""
    /\ \E out \in calcular_clutch_score(jugadores) : df_clutch' = out.table
    /\ pc' = "returned"
    /\ UNCHANGED <<feed, partidos, abreviaturas, jugadores, raised>>

\* calcular_clutch_score(jugadores) raises.
Raise ==
    /\ pc = "call"
    /\ FitError(jugadores) # ""
    /\ \E out \in calcular_clutch_score(jugadores) : raised' = out.raised
    /\ pc' = "raised"
    /\ UNCHANGED <<feed, partidos, abreviaturas, jugadores, df_clutch>>

Next == Return \/ Raise

Spec == Init /\ [][Next]_vars

\* ------------------------------------------------------------------ page script
\* nba_api's static team table: id -> nickname and abbreviation.
teams ==
    [id \in 1..3 |->
        CASE id = 1 -> [nickname |-> "Home", abbreviation |-> "HOM"]
          [] id = 2 -> [nickname |-> "Visitors", abbreviation |-> "VIS"]
          [] id = 3 -> [nickname |-> "Others", abbreviation |-> "OTH"]]

\* Team ids the scoreboard may name; 0 is an id the static table does not hold
\* (find_team_name_by_id returns None, and subscripting it raises).
TeamIds == 0..3

GameRows ==
    {[HOME_TEAM_ID |-> ids[1], VISITOR_TEAM_ID |-> ids[2], GAME_STATUS_TEXT |-> "7:00 pm ET"] :
        ids \in {x \in TeamIds \X TeamIds : x[1] # x[2]}}

\* What ScoreboardV2() gives: it raises (ok = FALSE) or it holds a GameHeader.
ScoreboardResults ==
    {[ok |-> FALSE, GameHeader |-> <<>>]}
    \cup {[ok |-> TRUE, GameHeader |-> g] : g \in SeqsUpTo(GameRows, MaxGames)}

\* Whether the try block of obtener_partidos raises: the request fails, or a
\* game names a team the static table does not know.
PartidosRaises(sb) ==
    \/ ~sb.ok
    \/ \E k \in 1..Len(sb.GameHeader) :
          \/ sb.GameHeader[k].HOME_TEAM_ID \notin DOMAIN teams
          \/ sb.GameHeader[k].VISITOR_TEAM_ID \notin DOMAIN teams

GameKey(game) ==
    <<teams[game.HOME_TEAM_ID].nickname, "vs", teams[game.VISITOR_TEAM_ID].nickname>>

\* obtener_partidos(): {} when the request raises, when there is no game, or
\* when the loop raises; else one entry per label, a later game replacing an
\* earlier one of the same label.
obtener_partidos(sb) ==
    IF PartidosRaises(sb) \/ Len(sb.GameHeader) = 0 THEN <<>>
    ELSE LET header == sb.GameHeader
             last(key) == CHOOSE k \in 1..Len(header) :
                             /\ GameKey(header[k]) = key
                             /\ \A l \in (k + 1)..Len(header) : GameKey(header[l]) # key
         IN  [key \in {GameKey(header[k]) : k \in 1..Len(header)} |->
                 [home_abbrev |-> teams[header[last(key)].HOME_TEAM_ID].abbreviation,
                  away_abbrev |-> teams[header[last(key)].VISITOR_TEAM_ID].abbreviation,
                  status |-> header[last(key)].GAME_STATUS_TEXT]]

\* How obtener_partidos ended.
PartidosPath(sb) ==
    IF PartidosRaises(sb) THEN "failed"
    ELSE IF Len(sb.GameHeader) = 0 THEN "empty"
    ELSE "games"

LeagueIdentities == {<<"A", "HOM">>, <<"B", "VIS">>, <<"C", "OTH">>}

LeagueRows == {Player(id[1], id[2], s) : id \in LeagueIdentities, s \in Profiles}

\* What LeagueDashPlayerStats(...).get_data_frames()[0] gives: it raises, or it
\* is the league's table.
LeagueResults ==
    {[ok |-> FALSE, rows |-> <<>>]}
    \cup {[ok |-> TRUE, rows |-> r] : r \in SeqsUpTo(LeagueRows, MaxLeagueRows)}

RECURSIVE SelectRows(_, _)
\* Boolean-mask selection: the rows of the sequence that are in keep, in order.
SelectRows(rows, keep) ==
    IF Len(rows) = 0 THEN <<>>
    ELSE IF Head(rows) \in keep THEN <<Head(rows)>> \o SelectRows(Tail(rows), keep)
    ELSE SelectRows(Tail(rows), keep)

\* .dropna(): the rows with no missing cell.
dropna(rows) ==
    SelectRows(rows, {r \in {rows[k] : k \in 1..Len(rows)} :
                        \A c \in StatColumns : ~r[c].isnan})

\* obtener_datos_jugadores(abreviaturas): pd.DataFrame() when the fetch raises;
\* else the complete rows of the two teams.
obtener_datos_jugadores(abrevs, league) ==
    IF ~league.ok THEN EmptyFrame
    ELSE LET relevant_stats == dropna(league.rows)
             isin == {r \in {relevant_stats[k] : k \in 1..Len(relevant_stats)} :
                        \E k \in 1..Len(abrevs) : r.TEAM_ABBREVIATION = abrevs[k]}
         IN  [columns |-> AllColumns, rows |-> SelectRows(relevant_stats, isin)]

\* An emptiness test that looks at the columns alone.
empty_no_columns(df) == df.columns = {}

\* DataFrame.empty: some axis has length 0.
empty(df) == df.columns = {} \/ Len(df.rows) = 0

PageInit ==
    /\ pc = "sidebar"
    /\ feed = NoFeed
    /\ partidos = <<>>
    /\ abreviaturas = <<>>
    /\ jugadores = EmptyFrame
    /\ df_clutch = <<>>
    /\ raised = ""

\* Line 67: partidos = obtener_partidos()
ObtenerPartidos ==
    /\ pc = "sidebar"
    /\ \E sb \in ScoreboardResults :
          /\ partidos' = obtener_partidos(sb)
          /\ feed' = [feed EXCEPT !.games = PartidosPath(sb)]
    /\ pc' = "partidos"
    /\ UNCHANGED <<abreviaturas, jugadores, df_clutch, raised>>

\* Lines 68-71: a game is selected and its two team codes kept.
Seleccionar ==
    /\ pc = "partidos"
    /\ DOMAIN partidos # {}
    /\ \E partido_seleccionado \in DOMAIN partidos :
          abreviaturas' = <<partidos[partido_seleccionado].home_abbrev,
                            partidos[partido_seleccionado].away_abbrev>>
    /\ pc' = "tab1"
    /\ UNCHANGED <<feed, partidos, jugadores, df_clutch, raised>>

\* Lines 72-73: st.stop() ends the run.
Stop ==
    /\ pc = "partidos"
    /\ DOMAIN partidos = {}
    /\ pc' = "stopped"
    /\ UNCHANGED <<feed, partidos, abreviaturas, jugadores, df_clutch, raised>>

\* Lines 79-80: jugadores = obtener_datos_jugadores(abreviaturas)
ObtenerDatosJugadores ==
    /\ pc = "tab1"
    /\ DOMAIN partidos # {}
    /\ \E league \in LeagueResults :
          /\ jugadores' = obtener_datos_jugadores(abreviaturas, league)
          /\ feed' = [feed EXCEPT !.players = IF league.ok THEN "fetched" ELSE "failed"]
    /\ pc' = "jugadores"
    /\ UNCHANGED <<partidos, abreviaturas, df_clutch, raised>>

\* Lines 82-110: the frame is not empty; it is scored and shown.  An exception
\* leaving calcular_clutch_score ends the run.
Puntuar ==
    /\ pc = "jugadores"
    /\ ~empty(jugadores)
    /\ \E out \in calcular_clutch_score(jugadores) :
          /\ df_clutch' = out.table
          /\ raised' = out.raised
          /\ pc' = IF out.raised = "" THEN "rendered" ELSE "crashed"
    /\ UNCHANGED <<feed, partidos, abreviaturas, jugadores>>

\* Line 82: the frame is empty; nothing is scored.
Omitir ==
    /\ pc = "jugadores"
    /\ empty(jugadores)
    /\ pc' = "done"
    /\ UNCHANGED <<feed, partidos, abreviaturas, jugadores, df_clutch, raised>>

PageNext ==
    \/ ObtenerPartidos
    \/ Seleccionar
    \/ Stop
    \/ ObtenerDatosJugadores
    \/ Puntuar
    \/ Omitir

PageSpec == PageInit /\ [][PageNext]_vars

\* ------------------------------------------------------------------ claims
\* The frame meets the engine's input contract: the columns are there, there is
\* at least one row, and no stat cell is missing.
ValidInput(df) ==
    /\ StatColumns \subseteq df.columns
    /\ Len(df.rows) >= 1
    /\ \A i \in 1..Len(df.rows) : \A c \in StatColumns : ~df.rows[i][c].isnan

HasMissing(df) ==
    \E i \in 1..Len(df.rows) : \E c \in StatColumns : df.rows[i][c].isnan

Out == 1..Len(df_clutch)

In == 1..Len(jugadores.rows)

ScoreOf(k) == df_clutch[k].CLUTCH_SCORE

RankOf(k) == df_clutch[k].CLUTCH_RANK

\* Rank a is strictly better (a smaller number) than rank b.
RankLess(a, b) == a.num * b.den < b.num * a.den

SameIdentity(k, i) ==
    /\ df_clutch[k].PLAYER_NAME = jugadores.rows[i].PLAYER_NAME
    /\ df_clutch[k].TEAM_ABBREVIATION = jugadores.rows[i].TEAM_ABBREVIATION

\* The standardized value by the textbook formula over all rows of the frame,
\* (x - mean) / sqrt(E[x^2] - mean^2), in units of 1/Precision; 0 where the
\* column is constant.
TextbookZ(rows, c, i) ==
    LET n == Len(rows)
        sum == SumOver([k \in 1..n |-> rows[k][c].val], 1..n)
        sumsq == SumOver([k \in 1..n |-> rows[k][c].val * rows[k][c].val], 1..n)
        v == n * sumsq - sum * sum
    IN  IF v = 0 THEN 0
        ELSE RoundDiv((n * rows[i][c].val - sum) * Precision * Precision,
                      Sqrt(v * Precision * Precision))

\* The columns in which every row holds the same value.
ConstantColumns(rows) ==
    {c \in StatColumns : \A i, k \in 1..Len(rows) : rows[i][c] = rows[k][c]}

\* The weight the formula of the page's "Metrica Clutch" gives to a column.
NamedWeight(c) ==
    CASE c = "PTS" -> 35
      [] c = "FG_PCT" -> 25
      [] c = "FT_PCT" -> 15
      [] c = "AST" -> 15
      [] c = "FG3_PCT" -> 10
      [] c = "TOV" -> -25

\* C1: for every non-empty input, CLUTCH_RANK is the standard competition rank,
\* the positive integer 1 + (number of rows with a strictly greater score).
C1_CompetitionRank ==
    (pc = "returned" /\ ValidInput(jugadores)) =>
        \A k \in Out :
            RankOf(k) = [isnan |-> FALSE,
                         num |-> 1 + Cardinality({l \in Out : ScoreOf(l).val > ScoreOf(k).val}),
                         den |-> 1]

\* C2: the returned table is sorted descending by CLUTCH_SCORE: every adjacent
\* pair (k, k+1) has score[k] >= score[k+1].
C2_SortedDescending ==
    (pc = "returned" /\ ValidInput(jugadores)) =>
        \A k \in Out : k + 1 \in Out =>
            /\ ~ScoreOf(k).isnan /\ ~ScoreOf(k + 1).isnan
            /\ ScoreOf(k).val >= ScoreOf(k + 1).val

\* A three-row input whose rows came in ascending score order was returned.
C2_Witness ==
    /\ pc = "returned" /\ ValidInput(jugadores) /\ Len(df_clutch) = 3
    /\ LET s == clutch_scores(jugadores.rows)
       IN  s[1].val < s[2].val /\ s[2].val < s[3].val
    /\ ScoreOf(1).val > ScoreOf(3).val

\* C3: rank is consistent with score for every pair of rows: equal scores have
\* equal ranks, and the higher score has the strictly lower rank number.
C3_RankConsistent ==
    (pc = "returned" /\ ValidInput(jugadores)) =>
        \A k, l \in Out :
            /\ ~RankOf(k).isnan
            /\ ScoreOf(k).val = ScoreOf(l).val => RankOf(k) = RankOf(l)
            /\ ScoreOf(k).val > ScoreOf(l).val => RankLess(RankOf(k), RankOf(l))

\* A returned table with two tied rows and a third row below them.
C3_Witness ==
    /\ pc = "returned" /\ ValidInput(jugadores)
    /\ \E k, l, m \in Out :
          /\ k # l /\ ScoreOf(k).val = ScoreOf(l).val
          /\ ScoreOf(l).val > ScoreOf(m).val

\* C4: one result row per input record, none dropped or duplicated: the rows
\* (name, team, score) of the result, counted with multiplicity, are those of
\* the input with each record's own score.
C4_RowsPreserved ==
    (pc = "returned" /\ ValidInput(jugadores)) =>
        /\ Len(df_clutch) = Len(jugadores.rows)
        /\ LET s == clutch_scores(jugadores.rows)
           IN  \A i \in In :
                  Cardinality({k \in Out : SameIdentity(k, i) /\ ScoreOf(k) = s[i]})
                    = Cardinality({j \in In :
                          /\ jugadores.rows[j].PLAYER_NAME = jugadores.rows[i].PLAYER_NAME
                          /\ jugadores.rows[j].TEAM_ABBREVIATION = jugadores.rows[i].TEAM_ABBREVIATION
                          /\ s[j] = s[i]})

\* A returned table for an input in which two records share name and team but
\* not the score, and two records share the score but not the name.
C4_Witness ==
    /\ pc = "returned" /\ ValidInput(jugadores)
    /\ LET s == clutch_scores(jugadores.rows)
       IN  /\ \E i, j \in In :
                /\ jugadores.rows[i].PLAYER_NAME = jugadores.rows[j].PLAYER_NAME
                /\ jugadores.rows[i].TEAM_ABBREVIATION = jugadores.rows[j].TEAM_ABBREVIATION
                /\ s[i] # s[j]
           /\ \E i, j \in In :
                /\ jugadores.rows[i].PLAYER_NAME # jugadores.rows[j].PLAYER_NAME
                /\ s[i] = s[j]

\* The weighted sum of a record's standardized stats over the columns cols,
\* each weight on its own column.
TextbookScore(rows, cols, i) ==
    SumOver([c \in cols |-> NamedWeight(c) * TextbookZ(rows, c, i)], cols)

\* C5: each record's CLUTCH_SCORE is 0.35 z(PTS) + 0.25 z(FG_PCT) + 0.15 z(FT_PCT)
\* + 0.15 z(AST) + 0.10 z(FG3_PCT) - 0.25 z(TOV), z the value less the column
\* mean over the column's standard deviation across all input records.
C5_WeightedSum ==
    (pc = "returned" /\ ValidInput(jugadores)) =>
        /\ \A k \in Out : \E i \in In :
              /\ SameIdentity(k, i)
              /\ ScoreOf(k) = Float(TextbookScore(jugadores.rows, StatColumns, i))
        /\ \A i \in In : \E k \in Out :
              /\ SameIdentity(k, i)
              /\ ScoreOf(k) = Float(TextbookScore(jugadores.rows, StatColumns, i))

\* A returned table for an input in which no column is constant.
C5_Witness ==
    /\ pc = "returned" /\ ValidInput(jugadores) /\ Len(df_clutch) = 3
    /\ ConstantColumns(jugadores.rows) = {}
    /\ \E k \in Out : ScoreOf(k).val # 0

C7_EmptyInputRaises ==
    (pc # "call" /\ Len(jugadores.rows) = 0) =>
        /\ pc = "raised"
        /\ raised # ""
        /\ df_clutch = <<>>

\* The call on a frame that has the columns and no rows has raised.
C7_Witness ==
    /\ pc = "raised"
    /\ StatColumns \subseteq jugadores.columns
    /\ Len(jugadores.rows) = 0

\* C8: a record lacking one of the six stats makes the engine fail before it
\* computes anything; no table is returned.
C8_MissingFieldRaises ==
    (pc # "call" /\ HasMissing(jugadores)) => pc = "raised"

\* The three players of the scenario, in any row order.
IsScenario(rows) ==
    /\ Len(rows) = 3
    /\ \E a, b, c \in 1..3 :
          /\ {a, b, c} = 1..3
          /\ rows[a].PLAYER_NAME = "A" /\ \A x \in StatColumns : rows[a][x] = ProfileA[x]
          /\ rows[b].PLAYER_NAME = "B" /\ \A x \in StatColumns : rows[b][x] = ProfileB[x]
          /\ rows[c].PLAYER_NAME = "C" /\ \A x \in StatColumns : rows[c][x] = ProfileC[x]

Whole(n) == [isnan |-> FALSE, num |-> n, den |-> 1]

\* C9: for the three players A, B, C of the scenario, A or B ranks first, C
\* ranks last, and the ranks are 1, 2, 3.
C9_Scenario ==
    (pc # "call" /\ IsScenario(jugadores.rows)) =>
        /\ pc = "returned"
        /\ df_clutch[1].PLAYER_NAME \in {"A", "B"}
        /\ df_clutch[3].PLAYER_NAME = "C"
        /\ RankOf(1) = Whole(1) /\ RankOf(2) = Whole(2) /\ RankOf(3) = Whole(3)
        /\ ScoreOf(1).val > ScoreOf(2).val /\ ScoreOf(2).val > ScoreOf(3).val

\* The scenario was scored with its rows given in the order C, A, B.
C9_Witness ==
    /\ pc = "returned" /\ IsScenario(jugadores.rows)
    /\ jugadores.rows[1].PLAYER_NAME = "C"
    /\ jugadores.rows[2].PLAYER_NAME = "A"

\* C10: in every run of the page, calcular_clutch_score is invoked only after a
\* games fetch that gave at least one game and a player fetch that gave a
\* non-empty table; a games fetch that fails or gives no game stops the run
\* before any player fetch or scoring; a failed or empty player fetch gives an
\* empty frame and scoring is skipped; no exception reaches or leaves the engine.
C10_EngineAfterFeeds ==
    /\ pc \in {"rendered", "crashed"} =>
          /\ feed = [games |-> "games", players |-> "fetched"]
          /\ DOMAIN partidos # {}
          /\ Len(jugadores.rows) >= 1
    /\ feed.games \in {"failed", "empty"} =>
          /\ partidos = <<>>
          /\ pc \in {"partidos", "stopped"}
          /\ feed.players = "none"
          /\ df_clutch = <<>>
    /\ feed.players = "failed" => jugadores = EmptyFrame
    /\ (feed.players # "none" /\ Len(jugadores.rows) = 0) =>
          /\ pc \in {"jugadores", "done"}
          /\ df_clutch = <<>>
    /\ pc # "crashed" /\ raised = ""

\* A run whose two fetches gave data and whose one-row frame was scored.
C10_Witness ==
    /\ pc = "rendered"
    /\ feed = [games |-> "games", players |-> "fetched"]
    /\ Len(df_clutch) = 1
    /\ df_clutch[1].TEAM_ABBREVIATION = "VIS"

====
